---- MODULE Spec2Model ----
(***************************************************************************)
(* Household finance tracker: home registry, join requests, ledger and     *)
(* token service.  Tables are modelled as the rows the SQL statements of   *)
(* src/src/database.py read and write; every handler (route of            *)
(* src/src/main.py plus the Database method it calls) is one action.       *)
(***************************************************************************)
EXTENDS Integers, Sequences, FiniteSets, TLC

\* ------------------------------------------------------------------ bounds
MaxHomes == 2          \* home rows ever inserted (SERIAL ids 1..MaxHomes)
MaxRequests == 1       \* join_requests rows ever inserted
MaxContributions == 3  \* contributions rows ever inserted
MaxTransfers == 1      \* transfers rows ever inserted
MaxTokens == 2         \* tokens ever issued
MaxTicks == 2          \* clock advances
MaxRepeatedRequests == 3 \* join_requests rows ever inserted, two-user registry

\* ------------------------------------------------------------- value sets
NULL == 0
Users == {"alice", "bob", "carol"}
NoSuchUser == "nobody"                 \* a username with no users row
UserNames == Users \cup {NoSuchUser}
FullName(u) == IF u = "alice" THEN "Alice" ELSE IF u = "bob" THEN "Bob" ELSE "Carol"
Email(u) == u \o "@example.com"
InitialPassword == "Secret123!"          \* what the users of Init registered with
HomeNames == {"Maple", "Oak"}
HomeIds == 1..(MaxHomes + 1)
RequestIds == 1..(MaxRequests + 1)
ContributionIds == 1..(MaxContributions + 1)

VARIABLES
    users,        \* users table: username -> [home_id, full_name, email, hashed_password]
    homes,        \* homes table: id -> [name, leader_username]
    home_members, \* home_members table: set of <<home_id, username>>
    join_requests,\* join_requests table: sequence of rows, id = index
    next_home_id, \* SERIAL of homes.id
    contributions,\* contributions table: id -> row
    transfers,    \* transfers table: sequence of rows, id = index
    next_contribution_id, \* SERIAL of contributions.id
    now,          \* the clock, in minutes
    ticks,        \* how often the clock has advanced
    issued,       \* every token AuthManager has created
    token_blacklist, \* TokenBlacklist._blacklisted_tokens
    next_jti,     \* stands for the fresh random jti of the next token
    revoke_log,   \* history: tokens that verified when revoke_token was called
    inflight,     \* the /transfer request in progress between storage calls
    observed,     \* what the last read of the ledger returned
    last          \* the last handler call and what it returned

homevars == <<users, homes, home_members, join_requests, next_home_id>>
ledgervars == <<contributions, transfers, next_contribution_id>>
authvars == <<now, ticks, issued, token_blacklist, next_jti, revoke_log>>
concvars == <<inflight, observed>>
vars == <<homevars, ledgervars, authvars, concvars, last>>

\* What a handler was called with and what it answered: ok is the boolean the
\* Database method returned (or "no exception"), err the ValueError message kind.
Call(op, who, arg, rid, ok) ==
    [op |-> op, who |-> who, arg |-> arg, rid |-> rid, ok |-> ok, err |-> ""]

Raised(op, who, arg, rid, err) ==
    [op |-> op, who |-> who, arg |-> arg, rid |-> rid, ok |-> FALSE, err |-> err]

\* No /transfer request is between two storage calls
Idle == [pc |-> "idle"]

\* ------------------------------------------------------------ table reads
\* get_user: the users row, or None
UserExists(u) == u \in DOMAIN users
UserHome(u) == IF UserExists(u) THEN users[u].home_id ELSE NULL

\* get_home: home row plus "SELECT username FROM home_members WHERE home_id"
HomeExists(h) == h \in DOMAIN homes
Members(h) == {u \in UserNames : <<h, u>> \in home_members}

\* "home.leader_username != leader_username" of add/remove/approve/reject
IsLeaderOf_Anyone(h, x) == HomeExists(h)

IsLeaderOf(h, x) == HomeExists(h) /\ homes[h].leader_username = x

\* "SELECT * FROM homes WHERE name = :home_name"
HomeIdsNamed_AnyHome(n) == DOMAIN homes

HomeIdsNamed(n) == {h \in DOMAIN homes : homes[h].name = n}

\* UNIQUE(name) of homes: the INSERT raises when the name is taken
NameTaken(n) == HomeIdsNamed(n) # {}

\* UNIQUE(home_id, username) of home_members: the INSERT raises on a duplicate
MemberRowExists(h, u) == <<h, u>> \in home_members

SetUserHome(u, h) ==
    IF UserExists(u) THEN [users EXCEPT ![u].home_id = h] ELSE users

\* AuthManager.get_password_hash / verify_password: a bcrypt hash is a value
\* made from the password that only that password verifies against
get_password_hash(password) == <<"bcrypt", password>>

verify_password_Never(plain_password, hashed_password) == FALSE

verify_password(plain_password, hashed_password) ==
    hashed_password = <<"bcrypt", plain_password>>

\* ------------------------------------------------------------------- Init
Init ==
    /\ users = [u \in Users |-> [home_id |-> NULL, full_name |-> FullName(u),
                                 email |-> Email(u),
                                 hashed_password |-> get_password_hash(InitialPassword)]]
    /\ homes = << >>
    /\ home_members = {}
    /\ join_requests = << >>
    /\ next_home_id = 1
    /\ contributions = << >>
    /\ transfers = << >>
    /\ next_contribution_id = 1
    /\ now = 0
    /\ ticks = 0
    /\ issued = {}
    /\ token_blacklist = {}
    /\ next_jti = 1
    /\ revoke_log = {}
    /\ inflight = Idle
    /\ observed = << >>
    /\ last = Call("init", "", "", 0, TRUE)

\* --------------------------------------------------------- POST /create-home
\* main.create_home: "if user.home_id" guard, then Database.create_home
CreateHomeAllowed_Always(x) == TRUE

CreateHomeAllowed(x) == UserHome(x) = NULL

CreateHome(x, n) ==
    /\ next_home_id <= MaxHomes
    /\ IF CreateHomeAllowed(x) /\ ~NameTaken(n)
       THEN /\ homes' = (next_home_id :> [name |-> n, leader_username |-> x]) @@ homes
            /\ users' = SetUserHome(x, next_home_id)
            /\ home_members' = home_members \cup {<<next_home_id, x>>}
            /\ next_home_id' = next_home_id + 1
            /\ last' = Call("create_home", x, n, 0, TRUE)
       ELSE /\ UNCHANGED <<users, homes, home_members, next_home_id>>
            /\ last' = Call("create_home", x, n, 0, FALSE)
    /\ UNCHANGED join_requests
    /\ UNCHANGED <<ledgervars, authvars, concvars>>

\* ----------------------------------------------------------- POST /add-member
\* Database.add_member_to_home: "if not user or user.home_id: return False"
CandidateIsFree_NoHomeCheck(c) == UserExists(c)

CandidateIsFree(c) == UserExists(c) /\ UserHome(c) = NULL

AddMember(x, c) ==
    LET h == UserHome(x) IN
    /\ IF /\ h # NULL
          /\ IsLeaderOf(h, x)
          /\ CandidateIsFree(c)
          /\ ~MemberRowExists(h, c)
       THEN /\ home_members' = home_members \cup {<<h, c>>}
            /\ users' = SetUserHome(c, h)
            /\ last' = Call("add_member", x, c, 0, TRUE)
       ELSE /\ UNCHANGED <<users, home_members>>
            /\ last' = Call("add_member", x, c, 0, FALSE)
    /\ UNCHANGED <<homes, join_requests, next_home_id>>
    /\ UNCHANGED <<ledgervars, authvars, concvars>>

\* -------------------------------------------------------- POST /remove-member
\* Database.remove_member_from_home: "if username == leader_username"
TargetIsLeader_NoCheck(t, x) == FALSE

TargetIsLeader(t, x) == t = x

RemoveMember(x, t) ==
    LET h == UserHome(x) IN
    /\ IF h # NULL /\ IsLeaderOf(h, x) /\ ~TargetIsLeader(t, x)
       THEN /\ home_members' = home_members \ {<<h, t>>}
            /\ users' = SetUserHome(t, NULL)
            /\ last' = Call("remove_member", x, t, 0, TRUE)
       ELSE /\ UNCHANGED <<users, home_members>>
            /\ last' = Call("remove_member", x, t, 0, FALSE)
    /\ UNCHANGED <<homes, join_requests, next_home_id>>
    /\ UNCHANGED <<ledgervars, authvars, concvars>>

\* ---------------------------------------------------------- POST /leave-home
\* Database.leave_home: "home.leader_username == username and len(home.members) > 1"
LeaderMustStay(h, x) == homes[h].leader_username = x /\ Cardinality(Members(h)) > 1

LeaveDissolves_Never(h, x) == FALSE

\* Database.leave_home: "home.leader_username == username and len(home.members) == 1"
LeaveDissolves(h, x) == homes[h].leader_username = x /\ Cardinality(Members(h)) = 1

LeaveHome(x) ==
    LET h == UserHome(x) IN
    /\ IF h # NULL /\ HomeExists(h) /\ ~LeaderMustStay(h, x)
       THEN /\ home_members' = home_members \ {<<h, x>>}
            /\ users' = SetUserHome(x, NULL)
            /\ homes' = IF LeaveDissolves(h, x)
                        THEN [k \in DOMAIN homes \ {h} |-> homes[k]]
                        ELSE homes
            /\ last' = Call("leave_home", x, "", 0, TRUE)
       ELSE /\ UNCHANGED <<users, homes, home_members>>
            /\ last' = Call("leave_home", x, "", 0, FALSE)
    /\ UNCHANGED <<join_requests, next_home_id>>
    /\ UNCHANGED <<ledgervars, authvars, concvars>>

\* --------------------------------------------------- POST /request-join-home
\* Database.create_join_request: the "existing pending request" SELECT
HasPendingFor_Never(x, h) == FALSE

HasPendingFor(x, h) ==
    \E r \in DOMAIN join_requests :
        /\ join_requests[r].username = x
        /\ join_requests[r].home_id = h
        /\ join_requests[r].status = "pending"

\* main.request_join_home: "if user.home_id" guard
RequestJoinAllowed(x) == UserHome(x) = NULL

RequestJoinUpTo(x, n, cap) ==
    /\ Len(join_requests) < cap
    /\ IF /\ RequestJoinAllowed(x)
          /\ NameTaken(n)
          /\ ~HasPendingFor(x, CHOOSE h \in HomeIdsNamed(n) : TRUE)
       THEN /\ join_requests' = Append(join_requests,
                    [username |-> x,
                     home_id |-> CHOOSE h \in HomeIdsNamed(n) : TRUE,
                     home_name |-> n,
                     status |-> "pending"])
            /\ last' = Call("request_join", x, n, Len(join_requests) + 1, TRUE)
       ELSE /\ UNCHANGED join_requests
            /\ last' = Call("request_join", x, n, 0, FALSE)
    /\ UNCHANGED <<users, homes, home_members, next_home_id>>
    /\ UNCHANGED <<ledgervars, authvars, concvars>>

RequestJoin(x, n) == RequestJoinUpTo(x, n, MaxRequests)

\* ------------------------------------------------ POST /approve-join-request
\* "if not request_result or request_result['status'] != 'pending': return False"
RequestIsPending_AnyStatus(r) == r \in DOMAIN join_requests

RequestIsPending(r) ==
    r \in DOMAIN join_requests /\ join_requests[r].status = "pending"

\* "if not home_result or home_result['leader_username'] != leader_username"
DecidesAsLeader_Anyone(r, x) == TRUE

DecidesAsLeader(r, x) == IsLeaderOf(join_requests[r].home_id, x)

SetStatus(r, s) == [join_requests EXCEPT ![r].status = s]

\* Database.approve_join_request.  The three writes are separate autocommitted
\* statements: when the INSERT into home_members raises on a duplicate row the
\* UPDATE of users before it stays and the status UPDATE after it is skipped.
ApproveJoinRequest(x, r) ==
    /\ IF RequestIsPending(r) /\ DecidesAsLeader(r, x)
       THEN LET h == join_requests[r].home_id
                a == join_requests[r].username
            IN  /\ users' = SetUserHome(a, h)
                /\ IF MemberRowExists(h, a)
                   THEN /\ UNCHANGED <<home_members, join_requests>>
                        /\ last' = Call("approve", x, "", r, FALSE)
                   ELSE /\ home_members' = home_members \cup {<<h, a>>}
                        /\ join_requests' = SetStatus(r, "approved")
                        /\ last' = Call("approve", x, "", r, TRUE)
       ELSE /\ UNCHANGED <<users, home_members, join_requests>>
            /\ last' = Call("approve", x, "", r, FALSE)
    /\ UNCHANGED <<homes, next_home_id>>
    /\ UNCHANGED <<ledgervars, authvars, concvars>>

\* Database.reject_join_request
RejectJoinRequest(x, r) ==
    /\ IF RequestIsPending(r) /\ DecidesAsLeader(r, x)
       THEN /\ join_requests' = SetStatus(r, "rejected")
            /\ last' = Call("reject", x, "", r, TRUE)
       ELSE /\ UNCHANGED join_requests
            /\ last' = Call("reject", x, "", r, FALSE)
    /\ UNCHANGED <<users, homes, home_members, next_home_id>>
    /\ UNCHANGED <<ledgervars, authvars, concvars>>

\* ------------------------------------------------------------------- Next
Next ==
    \/ \E x \in Users, n \in HomeNames : CreateHome(x, n)
    \/ \E x \in Users, c \in UserNames : AddMember(x, c)
    \/ \E x \in Users, t \in UserNames : RemoveMember(x, t)
    \/ \E x \in Users : LeaveHome(x)
    \/ \E x \in Users, n \in HomeNames : RequestJoin(x, n)
    \/ \E x \in Users, r \in RequestIds : ApproveJoinRequest(x, r)
    \/ \E x \in Users, r \in RequestIds : RejectJoinRequest(x, r)

Spec == Init /\ [][Next]_vars

\* The registry with two users, who may ask again after a decision.
RequestUsers == {"alice", "bob"}
RepeatedRequestIds == 1..(MaxRepeatedRequests + 1)

NextRequests ==
    \/ \E x \in RequestUsers, n \in HomeNames : CreateHome(x, n)
    \/ \E x \in RequestUsers : LeaveHome(x)
    \/ \E x \in RequestUsers, n \in HomeNames :
            RequestJoinUpTo(x, n, MaxRepeatedRequests)
    \/ \E x \in RequestUsers, r \in RepeatedRequestIds : ApproveJoinRequest(x, r)
    \/ \E x \in RequestUsers, r \in RepeatedRequestIds : RejectJoinRequest(x, r)

SpecRequests == Init /\ [][NextRequests]_vars

\* ================================================================ ledger
\* A product name is <<head, tail>>: the text the analytics' LIKE patterns
\* "Fund transfer%" / "Fund received%" look at, and the rest of the name.
TransferOutProduct(full_name) == <<"Fund transfer", " to " \o full_name>>
TransferInProduct(full_name) == <<"Fund received", " from " \o full_name>>
\* What the ledger's callers type in: who calls, product names, amounts (cents / 100)
LedgerUsers == {"alice", "bob"}
LedgerUserNames == LedgerUsers \cup {NoSuchUser}
Products == {<<"Groceries", "">>}
ContributionAmounts == {20, 60}
TransferAmounts == {-5, 0, 20}

\* One contributions row.  origin is not a column: it records which call wrote
\* the row (0: /add-contribution, k: the create_transfer that wrote transfer k).
ContributionRow_Unsigned(u, h, p, a, o) ==
    [username |-> u, home_id |-> h, product_name |-> p,
     amount |-> IF a < 0 THEN -a ELSE a, origin |-> o]

ContributionRow_NoHome(u, h, p, a, o) ==
    [username |-> u, home_id |-> NULL, product_name |-> p, amount |-> a, origin |-> o]

ContributionRow(u, h, p, a, o) ==
    [username |-> u, home_id |-> h, product_name |-> p, amount |-> a, origin |-> o]

\* main.add_contribution / main.create_transfer: "user_home = await
\* db.get_user_home(...)": the user has a home_id and that home row exists
HasHome(x) == UserHome(x) # NULL /\ HomeExists(UserHome(x))

\* Database.create_contribution: "if not user or not user.home_id: raise"
MayContribute(x) == UserExists(x) /\ UserHome(x) # NULL

\* --------------------------------------------------- POST /add-contribution
RecordContribution(x, p, a) ==
    /\ next_contribution_id <= MaxContributions
    /\ IF HasHome(x) /\ MayContribute(x)
       THEN /\ contributions' = (next_contribution_id :>
                    ContributionRow(x, UserHome(x), p, a, 0)) @@ contributions
            /\ next_contribution_id' = next_contribution_id + 1
            /\ last' = Call("add_contribution", x, "", next_contribution_id, TRUE)
       ELSE /\ UNCHANGED <<contributions, next_contribution_id>>
            /\ last' = Raised("add_contribution", x, "", 0, "NoHome")
    /\ UNCHANGED <<homevars, transfers>>
    /\ UNCHANGED <<authvars, concvars>>

\* ------------------------------------------------------------ POST /transfer
\* The checks of main.create_transfer and Database.create_transfer, in the
\* order the code makes them; "" when the transfer goes ahead.
TransferError_NoSelfCheck(x, rcp, a) ==
    IF ~HasHome(x) THEN "NoHome"
    ELSE IF a <= 0 THEN "NonPositiveAmount"
    ELSE IF ~UserExists(x) \/ ~UserExists(rcp) THEN "NoSuchUser"
    ELSE IF UserHome(x) = NULL \/ UserHome(x) # UserHome(rcp) THEN "HomeMismatch"
    ELSE ""

TransferError(x, rcp, a) ==
    IF ~HasHome(x) THEN "NoHome"
    ELSE IF a <= 0 THEN "NonPositiveAmount"
    ELSE IF ~UserExists(x) \/ ~UserExists(rcp) THEN "NoSuchUser"
    ELSE IF UserHome(x) = NULL \/ UserHome(x) # UserHome(rcp) THEN "HomeMismatch"
    ELSE IF x = rcp THEN "SelfTransfer"
    ELSE ""

\* Database.create_transfer: the transfers row, then create_contribution for
\* the sender (+amount) and for the recipient (-amount).
RecordTransfer(x, rcp, a) ==
    /\ Len(transfers) < MaxTransfers
    /\ next_contribution_id + 1 <= MaxContributions
    /\ IF TransferError(x, rcp, a) = ""
       THEN LET t == Len(transfers) + 1
                c1 == next_contribution_id
                c2 == next_contribution_id + 1
            IN  /\ transfers' = Append(transfers,
                        [sender_username |-> x, recipient_username |-> rcp,
                         home_id |-> UserHome(x), amount |-> a])
                /\ contributions' =
                        (c1 :> ContributionRow(x, UserHome(x),
                                   TransferOutProduct(users[rcp].full_name), a, t))
                     @@ (c2 :> ContributionRow(rcp, UserHome(rcp),
                                   TransferInProduct(users[x].full_name), -a, t))
                     @@ contributions
                /\ next_contribution_id' = next_contribution_id + 2
                /\ last' = Call("transfer", x, rcp, a, TRUE)
       ELSE /\ UNCHANGED <<contributions, transfers, next_contribution_id>>
            /\ last' = Raised("transfer", x, rcp, a, TransferError(x, rcp, a))
    /\ UNCHANGED homevars
    /\ UNCHANGED <<authvars, concvars>>

\* ------------------------------------------- POST /delete-contribution/{id}
\* "DELETE FROM contributions WHERE id = :id AND username = :username"
DeleteMatches(id, x) ==
    id \in DOMAIN contributions /\ contributions[id].username = x

\* Database.execute of the asyncpg backend answers with fetchval: the first
\* column of the first returned row, None for a DELETE without RETURNING.
ExecuteResult(matched) == NULL

\* "return result > 0" with result None: the comparison raises TypeError;
\* with a number it is the boolean
ResultPositive(result) == IF result = NULL THEN "TypeError" ELSE result > 0

\* The DELETE runs first; main.delete_contribution's bare except turns the
\* TypeError into a redirect to /login.
DeleteContribution(x, id) ==
    /\ contributions' =
            IF DeleteMatches(id, x)
            THEN [k \in DOMAIN contributions \ {id} |-> contributions[k]]
            ELSE contributions
    /\ LET answer == ResultPositive(ExecuteResult(DeleteMatches(id, x)))
       IN  last' = IF answer = "TypeError"
                   THEN Raised("delete_contribution", x, "", id, "TypeError")
                   ELSE Call("delete_contribution", x, "", id, answer)
    /\ UNCHANGED <<homevars, transfers, next_contribution_id>>
    /\ UNCHANGED <<authvars, concvars>>

\* ------------------------------------------------------------- ledger reads
RECURSIVE SumAmounts(_, _)
SumAmounts(rows, ids) ==
    IF ids = {} THEN 0
    ELSE LET k == CHOOSE i \in ids : TRUE
         IN  rows[k].amount + SumAmounts(rows, ids \ {k})

\* "SELECT COALESCE(SUM(amount), 0) FROM contributions WHERE home_id = :home_id"
HomeTotalOf(rows, h) ==
    SumAmounts(rows, {k \in DOMAIN rows : rows[k].home_id = h})

HomeTotal(h) == HomeTotalOf(contributions, h)

\* Database.get_user_balance:
\* "SELECT COALESCE(SUM(amount), 0) FROM contributions WHERE username = :username"
UserBalanceOf(rows, u) ==
    SumAmounts(rows, {k \in DOMAIN rows : rows[k].username = u})

get_user_balance(u) == UserBalanceOf(contributions, u)

\* Ledger handlers together with the membership handlers they depend on.
NextLedger ==
    \/ \E x \in LedgerUsers, n \in HomeNames : CreateHome(x, n)
    \/ \E x \in LedgerUsers, c \in LedgerUserNames : AddMember(x, c)
    \/ \E x \in LedgerUsers, t \in LedgerUserNames : RemoveMember(x, t)
    \/ \E x \in LedgerUsers : LeaveHome(x)
    \/ \E x \in LedgerUsers, p \in Products, a \in ContributionAmounts :
            RecordContribution(x, p, a)
    \/ \E x \in LedgerUsers, rcp \in LedgerUserNames, a \in TransferAmounts :
            RecordTransfer(x, rcp, a)
    \/ \E x \in LedgerUsers, id \in ContributionIds : DeleteContribution(x, id)

SpecLedger == Init /\ [][NextLedger]_vars

\* ------------------------------------------------ contribution to average
\* "SELECT COALESCE(SUM(amount), 0) FROM contributions
\*   WHERE username = :username AND home_id = :home_id"
UserTotalIn(x, h) ==
    SumAmounts(contributions,
               {k \in DOMAIN contributions :
                   contributions[k].username = x /\ contributions[k].home_id = h})

\* "home_total / home_members_count if home_members_count > 0 else 0".
\* Amounts are multiples of 20 and a home has at most two member rows here,
\* so the quotient is the exact value of the float division.
AverageContribution_NoDivision(home_total, home_members_count) == home_total

AverageContribution(home_total, home_members_count) ==
    IF home_members_count > 0 THEN home_total \div home_members_count ELSE 0

Max(a, b) == IF a >= b THEN a ELSE b

ZeroStats ==
    [user_total |-> 0, average_contribution |-> 0, amount_to_reach_average |-> 0,
     is_above_average |-> FALSE, home_members_count |-> 0]

\* Database.get_contribution_to_average
get_contribution_to_average(x) ==
    IF ~UserExists(x) \/ UserHome(x) = NULL THEN ZeroStats
    ELSE IF ~HomeExists(UserHome(x)) THEN ZeroStats
    ELSE LET h == UserHome(x)
             home_total == HomeTotal(h)
             user_total == UserTotalIn(x, h)
             home_members_count == Cardinality(Members(h))
             average_contribution ==
                 AverageContribution(home_total, home_members_count)
         IN  [user_total |-> user_total,
              average_contribution |-> average_contribution,
              amount_to_reach_average |-> Max(0, average_contribution - user_total),
              is_above_average |-> user_total >= average_contribution,
              home_members_count |-> home_members_count,
              home_total |-> home_total]

\* GET /dashboard and GET /profile read the statistics of the signed-in user
AverageGap(x) ==
    /\ observed' = get_contribution_to_average(x)
    /\ last' = Call("average_gap", x, "", 0, TRUE)
    /\ UNCHANGED <<homevars, ledgervars, authvars, inflight>>

NextAverage ==
    \/ \E x \in LedgerUsers, n \in HomeNames : CreateHome(x, n)
    \/ \E x \in LedgerUsers, c \in LedgerUsers : AddMember(x, c)
    \/ \E x \in LedgerUsers : LeaveHome(x)
    \/ \E x \in LedgerUsers, p \in Products, a \in ContributionAmounts :
            RecordContribution(x, p, a)
    \/ \E x \in LedgerUsers, rcp \in LedgerUsers : RecordTransfer(x, rcp, 20)
    \/ \E x \in LedgerUsers : AverageGap(x)

SpecAverage == Init /\ [][NextAverage]_vars

\* ------------------------------------------------------- product rollup
\* Product names typed into /add-contribution, one of them beginning like the
\* name create_transfer gives its sender's row
RollupProducts == {<<"Groceries", "">>, <<"Milk", "">>, <<"Fund transfer", " fee">>}

\* "product_name NOT LIKE 'Fund transfer%' AND product_name NOT LIKE 'Fund received%'"
NotLikeTransfer(product_name) ==
    product_name[1] # "Fund transfer" /\ product_name[1] # "Fund received"

\* "WHERE home_id = :home_id AND ... GROUP BY product_name": one row per name
RollupGroups(h) ==
    LET ids == {k \in DOMAIN contributions :
                   /\ contributions[k].home_id = h
                   /\ NotLikeTransfer(contributions[k].product_name)}
        names == {contributions[k].product_name : k \in ids}
    IN  {[product_name |-> n,
          total_amount |-> SumAmounts(contributions,
                              {k \in ids : contributions[k].product_name = n}),
          count |-> Cardinality({k \in ids : contributions[k].product_name = n})]
         : n \in names}

\* "ORDER BY total_amount DESC": every listing of the groups in that order
\* (groups with equal totals come in either order)
OrderedByTotal(groups) ==
    {s \in [1..Cardinality(groups) -> groups] :
        /\ \A i, j \in DOMAIN s : i # j => s[i] # s[j]
        /\ \A i, j \in DOMAIN s : i < j => s[i].total_amount >= s[j].total_amount}

\* GET /analytics: get_user_home, then Database.get_home_analytics
\* (contributions_by_product)
ProductRollup(x) ==
    /\ IF HasHome(x)
       THEN /\ observed' \in OrderedByTotal(RollupGroups(UserHome(x)))
            /\ last' = Call("product_rollup", x, "", UserHome(x), TRUE)
       ELSE /\ UNCHANGED observed
            /\ last' = Raised("product_rollup", x, "", 0, "NoHome")
    /\ UNCHANGED <<homevars, ledgervars, authvars, inflight>>

NextRollup ==
    \/ \E x \in LedgerUsers : CreateHome(x, "Maple")
    \/ \E x \in LedgerUsers, c \in LedgerUsers : AddMember(x, c)
    \/ \E x \in LedgerUsers, p \in RollupProducts, a \in ContributionAmounts :
            RecordContribution(x, p, a)
    \/ \E x \in LedgerUsers, rcp \in LedgerUsers : RecordTransfer(x, rcp, 20)
    \/ \E x \in LedgerUsers : ProductRollup(x)

SpecRollup == Init /\ [][NextRollup]_vars

\* ========================================================= token service
AccessTokenExpireMinutes == 30
RefreshTokenExpireDays == 7
MinutesPerDay == 1440
ClockSteps == {AccessTokenExpireMinutes, RefreshTokenExpireDays * MinutesPerDay}
TokenSubjects == {"alice", "bob"}
TokenTypes == {"access", "refresh"}

\* A JWT: its claims and whether its signature was made with secret_key.
Token(sub, exp, type, jti, sig) ==
    [sub |-> sub, exp |-> exp, type |-> type, jti |-> jti, sig |-> sig]

EmptyToken == Token("", 0, "", 0, "empty")            \* ""
MalformedToken == Token("", 0, "", 0, "malformed")    \* "invalid_token_here"
ForgedToken == Token("alice", AccessTokenExpireMinutes, "access", 0, "forged")
PresentedTokens == issued \cup {EmptyToken, MalformedToken, ForgedToken}

\* AuthManager.create_access_token / create_refresh_token
create_access_token_FixedSubject(sub) ==
    Token("alice", now + AccessTokenExpireMinutes, "access", next_jti, "secret_key")

create_access_token(sub) ==
    Token(sub, now + AccessTokenExpireMinutes, "access", next_jti, "secret_key")

create_refresh_token(sub) ==
    Token(sub, now + RefreshTokenExpireDays * MinutesPerDay, "refresh",
          next_jti, "secret_key")

is_blacklisted_Never(token) == FALSE

\* TokenBlacklist.is_blacklisted
is_blacklisted(token) == token \in token_blacklist

\* jwt.decode(..., options={"verify_exp": True}): the signature, then exp
SignatureOk(token) == token.sig = "secret_key"
Expired(token) == token.exp < now

\* AuthManager.verify_token: "ok" when the payload is returned, else why it
\* raised.  "Invalid" and "WrongType" leave the try block as an error that is
\* not ExpiredSignatureError.
verify_token(token, token_type) ==
    IF token = EmptyToken THEN "Missing"
    ELSE IF is_blacklisted(token) THEN "Revoked"
    ELSE IF ~SignatureOk(token) THEN "Invalid"
    ELSE IF Expired(token) THEN "Expired"
    ELSE IF token.type # token_type THEN "WrongType"
    ELSE "ok"

\* What verify_token raises to its caller as JWTError: the two raises before
\* the try block and the "except jwt.ExpiredSignatureError" clause.  The next
\* clause names jwt.InvalidTokenError, which jose.jwt does not define, so every
\* other error leaves verify_token as an AttributeError.
RaisesJWTError(outcome) == outcome \in {"Missing", "Revoked", "Expired"}

\* ----------------------------------------------------------- POST /token
LoginPasswords == {"Secret123!", "Wrong12345"}

\* Database.authenticate_user: get_user, then verify_password
authenticate_user(u, password) ==
    UserExists(u) /\ verify_password(password, users[u].hashed_password)

\* main.login_for_access_token: authenticate_user, then create_access_token
Login(u, password) ==
    /\ next_jti <= MaxTokens
    /\ IF authenticate_user(u, password)
       THEN /\ issued' = issued \cup {create_access_token(u)}
            /\ next_jti' = next_jti + 1
            /\ last' = Call("login", u, password, next_jti, TRUE)
       ELSE /\ UNCHANGED <<issued, next_jti>>
            /\ last' = Raised("login", u, password, 0, "Unauthenticated")
    /\ UNCHANGED <<now, ticks, token_blacklist, revoke_log>>
    /\ UNCHANGED <<homevars, ledgervars, concvars>>

\* AuthManager.create_refresh_token
IssueRefresh(u) ==
    /\ next_jti <= MaxTokens
    /\ issued' = issued \cup {create_refresh_token(u)}
    /\ next_jti' = next_jti + 1
    /\ last' = Call("create_refresh_token", u, "refresh", next_jti, TRUE)
    /\ UNCHANGED <<now, ticks, token_blacklist, revoke_log>>
    /\ UNCHANGED <<homevars, ledgervars, concvars>>

\* AuthManager.verify_token, called for its answer
VerifyToken(token, token_type) ==
    /\ last' = [op |-> "verify", who |-> token.sub, arg |-> token_type,
                rid |-> token.jti, ok |-> verify_token(token, token_type) = "ok",
                err |-> IF verify_token(token, token_type) = "ok" THEN ""
                        ELSE verify_token(token, token_type)]
    /\ UNCHANGED authvars
    /\ UNCHANGED <<homevars, ledgervars, concvars>>

\* AuthManager.refresh_access_token
RefreshAccessToken(token) ==
    /\ next_jti <= MaxTokens
    /\ IF verify_token(token, "refresh") = "ok" /\ token.sub # ""
       THEN /\ issued' = issued \cup {create_access_token(token.sub)}
            /\ next_jti' = next_jti + 1
            /\ last' = Call("refresh", token.sub, "access", next_jti, TRUE)
       ELSE /\ UNCHANGED <<issued, next_jti>>
            /\ last' = Raised("refresh", token.sub, "", token.jti, "JWTError")
    /\ UNCHANGED <<now, ticks, token_blacklist, revoke_log>>
    /\ UNCHANGED <<homevars, ledgervars, concvars>>

\* AuthManager.revoke_token: verify_token(token) with the default type
\* "access", then TokenBlacklist.add_token; "except JWTError: pass".
RevokeToken(token) ==
    LET outcome == verify_token(token, "access") IN
    /\ IF outcome = "ok"
       THEN /\ token_blacklist' = token_blacklist \cup {token}
            /\ revoke_log' = revoke_log \cup {token}
            /\ last' = Call("revoke", token.sub, "", token.jti, TRUE)
       ELSE /\ UNCHANGED <<token_blacklist, revoke_log>>
            /\ last' = IF RaisesJWTError(outcome)
                       THEN Call("revoke", token.sub, "", token.jti, TRUE)
                       ELSE Raised("revoke", token.sub, "", token.jti,
                                   "AttributeError")
    /\ UNCHANGED <<now, ticks, issued, next_jti>>
    /\ UNCHANGED <<homevars, ledgervars, concvars>>

\* TokenBlacklist.cleanup_expired_tokens: "pass"
CleanupExpiredTokens ==
    /\ token_blacklist' = token_blacklist
    /\ last' = Call("cleanup_expired_tokens", "", "", 0, TRUE)
    /\ UNCHANGED <<now, ticks, issued, next_jti, revoke_log>>
    /\ UNCHANGED <<homevars, ledgervars, concvars>>

\* Time passes
Tick(d) ==
    /\ ticks < MaxTicks
    /\ now' = now + d
    /\ ticks' = ticks + 1
    /\ last' = Call("tick", "", "", d, TRUE)
    /\ UNCHANGED <<issued, token_blacklist, next_jti, revoke_log>>
    /\ UNCHANGED <<homevars, ledgervars, concvars>>

NextAuth ==
    \/ \E u \in TokenSubjects \cup {NoSuchUser}, password \in LoginPasswords :
            Login(u, password)
    \/ \E u \in TokenSubjects : IssueRefresh(u)
    \/ \E t \in PresentedTokens, ty \in TokenTypes : VerifyToken(t, ty)
    \/ \E t \in PresentedTokens : RefreshAccessToken(t)
    \/ \E t \in PresentedTokens : RevokeToken(t)
    \/ CleanupExpiredTokens
    \/ \E d \in ClockSteps : Tick(d)

SpecAuth == Init /\ [][NextAuth]_vars

\* main.get_current_user: verify_token(token) with the default type "access",
\* payload.get("sub"), get_user; the bare "except:" turns whatever was raised
\* (JWTError, AttributeError, the 401 itself) into the 401 HTTPException
get_current_user(token) ==
    IF verify_token(token, "access") # "ok" THEN "401"
    ELSE IF token.sub = "" THEN "401"
    ELSE IF ~UserExists(token.sub) THEN "401"
    ELSE token.sub

\* A request that carries a token, up to the point where the route has its user
GetCurrentUser(token) ==
    /\ last' = IF get_current_user(token) = "401"
               THEN Raised("get_current_user", token.sub, "", token.jti, "401")
               ELSE Call("get_current_user", get_current_user(token), "",
                         token.jti, TRUE)
    /\ UNCHANGED authvars
    /\ UNCHANGED <<homevars, ledgervars, concvars>>

\* POST /logout: the response deletes the access_token cookie; the handler
\* takes no token and calls nothing of AuthManager.  token is the one the
\* session's cookie held.
Logout(token) ==
    /\ last' = Call("logout", token.sub, "", token.jti, TRUE)
    /\ UNCHANGED authvars
    /\ UNCHANGED <<homevars, ledgervars, concvars>>

NextSession ==
    \/ \E u \in TokenSubjects \cup {NoSuchUser}, password \in LoginPasswords :
            Login(u, password)
    \/ \E u \in TokenSubjects : IssueRefresh(u)
    \/ \E t \in PresentedTokens : GetCurrentUser(t)
    \/ \E t \in issued : Logout(t)
    \/ \E t \in PresentedTokens : RevokeToken(t)
    \/ \E d \in ClockSteps : Tick(d)

SpecSession == Init /\ [][NextSession]_vars

\* ============================================================== identity
\* What /register and /update-profile are called with
RegisterNames == {"alice", "dave", "erin"}
Emails == {Email("alice"), Email("bob"), Email("dave"), "d@example.org"}
FullNames == {"Dave", "D."}
RegisterPasswords == {"Secret123!", "short"}

\* get_user_by_email / UNIQUE(email) of users
EmailTaken(e) == \E u \in DOMAIN users : users[u].email = e

\* UNIQUE(email) seen by an UPDATE of x's row: another row has the email
EmailHeldByOther_NoConstraint(e, x) == FALSE

EmailHeldByOther(e, x) == \E u \in DOMAIN users \ {x} : users[u].email = e

\* POST /register: main.register's two look-ups, then Database.create_user,
\* which hashes the password ("if not password or len(password) < 8: raise")
\* and whose INSERT raises UniqueViolationError on a taken username or email
CreateUser(u, e, fn, password) ==
    /\ IF UserExists(u)
       THEN /\ UNCHANGED users
            /\ last' = Raised("create_user", u, e, 0, "AlreadyExists")
       ELSE IF EmailTaken(e)
       THEN /\ UNCHANGED users
            /\ last' = Raised("create_user", u, e, 0, "AlreadyExists")
       ELSE IF Len(password) < 8
       THEN /\ UNCHANGED users
            /\ last' = Raised("create_user", u, e, 0, "PasswordTooShort")
       ELSE /\ users' = (u :> [home_id |-> NULL, full_name |-> fn, email |-> e,
                                hashed_password |-> get_password_hash(password)])
                           @@ users
            /\ last' = Call("create_user", u, e, 0, TRUE)
    /\ UNCHANGED <<homes, home_members, join_requests, next_home_id>>
    /\ UNCHANGED <<ledgervars, authvars, concvars>>

\* POST /update-profile: Database.update_user_profile.  The UPDATE raises
\* UniqueViolationError when another row has the email; when it goes through,
\* "return result > 0" is evaluated on what execute() gave back.
UpdateProfile(x, fn, e) ==
    /\ UserExists(x)
    /\ IF EmailHeldByOther(e, x)
       THEN /\ UNCHANGED users
            /\ last' = Raised("update_profile", x, e, 0, "AlreadyExists")
       ELSE /\ users' = [users EXCEPT ![x].full_name = fn, ![x].email = e]
            /\ LET answer == ResultPositive(ExecuteResult(TRUE))
               IN  last' = IF answer = "TypeError"
                           THEN Raised("update_profile", x, e, 0, "TypeError")
                           ELSE Call("update_profile", x, e, 0, answer)
    /\ UNCHANGED <<homes, home_members, join_requests, next_home_id>>
    /\ UNCHANGED <<ledgervars, authvars, concvars>>

NextIdentity ==
    \/ \E u \in RegisterNames, e \in Emails, fn \in FullNames,
          password \in RegisterPasswords : CreateUser(u, e, fn, password)
    \/ \E x \in Users \cup RegisterNames, e \in Emails, fn \in FullNames :
            UpdateProfile(x, fn, e)

SpecIdentity == Init /\ [][NextIdentity]_vars

\* Registration, login and the life of the token a login returns
LoginNames == {"alice", "dave", NoSuchUser}
LoginClockSteps == {10, AccessTokenExpireMinutes}

NextLogin ==
    \/ \E password \in RegisterPasswords :
            CreateUser("dave", Email("dave"), "Dave", password)
    \/ \E u \in LoginNames, password \in LoginPasswords : Login(u, password)
    \/ \E t \in PresentedTokens, ty \in TokenTypes : VerifyToken(t, ty)
    \/ \E t \in PresentedTokens : RevokeToken(t)
    \/ \E d \in LoginClockSteps : Tick(d)

SpecLogin == Init /\ [][NextLogin]_vars

\* ============================================ requests between storage calls
\* Every "await db..." of Database.create_transfer is a point where another
\* request may run.  inflight holds the /transfer request that is between two
\* of its storage calls: its position and the local variables of the coroutine.

\* main.create_transfer up to the call of Database.create_transfer
TransferBegin(x, rcp, a) ==
    /\ inflight = Idle
    /\ Len(transfers) < MaxTransfers
    /\ next_contribution_id + 1 <= MaxContributions
    /\ IF ~HasHome(x)
       THEN /\ last' = Raised("transfer", x, rcp, a, "NoHome")
            /\ UNCHANGED inflight
       ELSE IF a <= 0
       THEN /\ last' = Raised("transfer", x, rcp, a, "NonPositiveAmount")
            /\ UNCHANGED inflight
       ELSE /\ inflight' = [pc |-> "get_sender", sender_username |-> x,
                            recipient_username |-> rcp, amount |-> a]
            /\ last' = Call("transfer_begin", x, rcp, a, TRUE)
    /\ UNCHANGED <<homevars, ledgervars, authvars, observed>>

\* "sender = await self.get_user(sender_username)"
TransferGetSender ==
    /\ inflight.pc = "get_sender"
    /\ inflight' = [inflight EXCEPT !.pc = "get_recipient"]
                     @@ [sender_home |-> UserHome(inflight.sender_username),
                         sender_name |-> users[inflight.sender_username].full_name]
    /\ UNCHANGED <<homevars, ledgervars, authvars, observed, last>>

\* "recipient = await self.get_user(...)" and the checks that follow it
TransferGetRecipient ==
    /\ inflight.pc = "get_recipient"
    /\ LET x == inflight.sender_username
           rcp == inflight.recipient_username
           a == inflight.amount
           err == IF ~UserExists(rcp) THEN "NoSuchUser"
                  ELSE IF inflight.sender_home = NULL
                          \/ inflight.sender_home # UserHome(rcp) THEN "HomeMismatch"
                  ELSE IF x = rcp THEN "SelfTransfer"
                  ELSE ""
       IN IF err = ""
          THEN /\ inflight' = [inflight EXCEPT !.pc = "insert_transfer"]
                                @@ [recipient_name |-> users[rcp].full_name]
               /\ UNCHANGED last
          ELSE /\ inflight' = Idle
               /\ last' = Raised("transfer", x, rcp, a, err)
    /\ UNCHANGED <<homevars, ledgervars, authvars, observed>>

\* "result = await db.fetch_one(transfer_query, transfer_values)"
TransferInsert ==
    /\ inflight.pc = "insert_transfer"
    /\ transfers' = Append(transfers,
            [sender_username |-> inflight.sender_username,
             recipient_username |-> inflight.recipient_username,
             home_id |-> inflight.sender_home, amount |-> inflight.amount])
    /\ inflight' = [inflight EXCEPT !.pc = "sender_get_user"]
                     @@ [transfer_id |-> Len(transfers) + 1]
    /\ UNCHANGED <<homevars, contributions, next_contribution_id>>
    /\ UNCHANGED <<authvars, observed, last>>

\* create_contribution(who, ...): "user = await self.get_user(username)";
\* raises ValueError, which ends create_transfer, when the user has no home
TransferContributionGetUser(pc, who, next_pc) ==
    /\ inflight.pc = pc
    /\ IF MayContribute(who)
       THEN /\ inflight' = [[k \in DOMAIN inflight \ {"user_home"} |-> inflight[k]]
                               EXCEPT !.pc = next_pc]
                             @@ [user_home |-> UserHome(who)]
            /\ UNCHANGED last
       ELSE /\ inflight' = Idle
            /\ last' = Raised("transfer", inflight.sender_username,
                              inflight.recipient_username, inflight.amount, "NoHome")
    /\ UNCHANGED <<homevars, ledgervars, authvars, observed>>

\* create_contribution(who, ...): "result = await db.fetch_one(query, values)"
TransferContributionInsert(pc, who, product, a, next_pc) ==
    /\ inflight.pc = pc
    /\ contributions' = (next_contribution_id :>
            ContributionRow(who, inflight.user_home, product, a,
                            inflight.transfer_id)) @@ contributions
    /\ next_contribution_id' = next_contribution_id + 1
    /\ IF next_pc = "idle"
       THEN /\ inflight' = Idle
            /\ last' = Call("transfer", inflight.sender_username,
                            inflight.recipient_username, inflight.amount, TRUE)
       ELSE /\ inflight' = [inflight EXCEPT !.pc = next_pc]
            /\ UNCHANGED last
    /\ UNCHANGED <<homevars, transfers, authvars, observed>>

TransferSenderGetUser ==
    TransferContributionGetUser("sender_get_user", inflight.sender_username,
                                "sender_insert")
TransferSenderInsert ==
    TransferContributionInsert("sender_insert", inflight.sender_username,
        TransferOutProduct(inflight.recipient_name), inflight.amount,
        "recipient_get_user")
TransferRecipientGetUser ==
    TransferContributionGetUser("recipient_get_user", inflight.recipient_username,
                                "recipient_insert")
TransferRecipientInsert ==
    TransferContributionInsert("recipient_insert", inflight.recipient_username,
        TransferInProduct(inflight.sender_name), -inflight.amount, "idle")

\* Database.get_home_contributions_with_users: one SELECT over the home's rows
HomeContributions(h) ==
    [k \in {c \in DOMAIN contributions : contributions[c].home_id = h}
        |-> contributions[k]]

ListHomeContributions(x) ==
    /\ HasHome(x)
    /\ observed' = HomeContributions(UserHome(x))
    /\ last' = Call("list_by_home", x, "", UserHome(x), TRUE)
    /\ UNCHANGED <<homevars, ledgervars, authvars, inflight>>

NextConc ==
    \/ \E x \in LedgerUsers, n \in HomeNames : CreateHome(x, n)
    \/ \E x \in LedgerUsers, c \in LedgerUsers : AddMember(x, c)
    \/ \E x \in LedgerUsers : LeaveHome(x)
    \/ \E x \in LedgerUsers, rcp \in LedgerUserNames, a \in TransferAmounts :
            TransferBegin(x, rcp, a)
    \/ TransferGetSender
    \/ TransferGetRecipient
    \/ TransferInsert
    \/ TransferSenderGetUser
    \/ TransferSenderInsert
    \/ TransferRecipientGetUser
    \/ TransferRecipientInsert
    \/ \E x \in LedgerUsers : ListHomeContributions(x)

SpecConc == Init /\ [][NextConc]_vars

\* ------------------------------------- /add-member between its storage calls
\* main.add_member_to_home: get_current_user reads the caller's users row
AddMemberBegin(x, c) ==
    /\ inflight = Idle
    /\ IF UserHome(x) = NULL
       THEN /\ last' = Call("add_member", x, c, 0, FALSE)
            /\ UNCHANGED inflight
       ELSE /\ inflight' = [pc |-> "add_get_home", leader_username |-> x,
                            username |-> c, home_id |-> UserHome(x)]
            /\ last' = Call("add_member_begin", x, c, 0, TRUE)
    /\ UNCHANGED <<homevars, ledgervars, authvars, observed>>

\* Steps of a member handler that only read: on to next_pc, or the handler
\* answers False
MemberHandlerStep(pc, op, passes, next_pc) ==
    /\ inflight.pc = pc
    /\ IF passes
       THEN /\ inflight' = [inflight EXCEPT !.pc = next_pc]
            /\ UNCHANGED last
       ELSE /\ inflight' = Idle
            /\ last' = Call(op, inflight.leader_username, inflight.username, 0, FALSE)
    /\ UNCHANGED <<homevars, ledgervars, authvars, observed>>

\* "home = await self.get_home(home_id)" and the leader check
AddMemberGetHome ==
    MemberHandlerStep("add_get_home", "add_member",
        IsLeaderOf(inflight.home_id, inflight.leader_username), "add_get_user")

\* "user = await self.get_user(username)" and "if not user or user.home_id"
AddMemberGetUser ==
    MemberHandlerStep("add_get_user", "add_member",
        CandidateIsFree(inflight.username), "add_insert")

\* "INSERT INTO home_members ...": raises on a duplicate row
AddMemberInsert ==
    /\ inflight.pc = "add_insert"
    /\ IF MemberRowExists(inflight.home_id, inflight.username)
       THEN /\ inflight' = Idle
            /\ last' = Call("add_member", inflight.leader_username,
                            inflight.username, 0, FALSE)
            /\ UNCHANGED home_members
       ELSE /\ home_members' = home_members \cup
                                  {<<inflight.home_id, inflight.username>>}
            /\ inflight' = [inflight EXCEPT !.pc = "add_update"]
            /\ UNCHANGED last
    /\ UNCHANGED <<users, homes, join_requests, next_home_id>>
    /\ UNCHANGED <<ledgervars, authvars, observed>>

\* "UPDATE users SET home_id = :home_id WHERE username = :username"
AddMemberUpdate ==
    /\ inflight.pc = "add_update"
    /\ users' = SetUserHome(inflight.username, inflight.home_id)
    /\ inflight' = Idle
    /\ last' = Call("add_member", inflight.leader_username, inflight.username, 0, TRUE)
    /\ UNCHANGED <<homes, home_members, join_requests, next_home_id>>
    /\ UNCHANGED <<ledgervars, authvars, observed>>

\* -------------------------------------- /leave-home between its storage calls
\* Database.leave_home: "user = await self.get_user(username)"
LeaveHomeBegin(x) ==
    /\ inflight = Idle
    /\ IF UserHome(x) = NULL
       THEN /\ last' = Call("leave_home", x, "", 0, FALSE)
            /\ UNCHANGED inflight
       ELSE /\ inflight' = [pc |-> "leave_get_home", leader_username |-> x,
                            username |-> "", home_id |-> UserHome(x)]
            /\ last' = Call("leave_home_begin", x, "", 0, TRUE)
    /\ UNCHANGED <<homevars, ledgervars, authvars, observed>>

\* "home = await self.get_home(user.home_id)": the home row and its member
\* list as they are now; the two checks that follow
LeaveHomeGetHome ==
    /\ inflight.pc = "leave_get_home"
    /\ LET h == inflight.home_id
           x == inflight.leader_username
       IN IF HomeExists(h) /\ ~LeaderMustStay(h, x)
          THEN /\ inflight' = [pc |-> "leave_delete_member", leader_username |-> x,
                               username |-> "", home_id |-> h,
                               dissolves |-> LeaveDissolves(h, x)]
               /\ UNCHANGED last
          ELSE /\ inflight' = Idle
               /\ last' = Call("leave_home", x, "", 0, FALSE)
    /\ UNCHANGED <<homevars, ledgervars, authvars, observed>>

\* "DELETE FROM home_members WHERE home_id = :home_id AND username = :username"
LeaveHomeDeleteMember ==
    /\ inflight.pc = "leave_delete_member"
    /\ home_members' = home_members \ {<<inflight.home_id, inflight.leader_username>>}
    /\ inflight' = [inflight EXCEPT !.pc = "leave_update_user"]
    /\ UNCHANGED <<users, homes, join_requests, next_home_id>>
    /\ UNCHANGED <<ledgervars, authvars, observed, last>>

\* "UPDATE users SET home_id = NULL WHERE username = :username"
LeaveHomeUpdateUser ==
    /\ inflight.pc = "leave_update_user"
    /\ users' = SetUserHome(inflight.leader_username, NULL)
    /\ IF inflight.dissolves
       THEN /\ inflight' = [inflight EXCEPT !.pc = "leave_delete_home"]
            /\ UNCHANGED last
       ELSE /\ inflight' = Idle
            /\ last' = Call("leave_home", inflight.leader_username, "", 0, TRUE)
    /\ UNCHANGED <<homes, home_members, join_requests, next_home_id>>
    /\ UNCHANGED <<ledgervars, authvars, observed>>

\* "DELETE FROM homes WHERE id = :home_id", decided on the member list read before
LeaveHomeDeleteHome ==
    /\ inflight.pc = "leave_delete_home"
    /\ homes' = [k \in DOMAIN homes \ {inflight.home_id} |-> homes[k]]
    /\ inflight' = Idle
    /\ last' = Call("leave_home", inflight.leader_username, "", 0, TRUE)
    /\ UNCHANGED <<users, home_members, join_requests, next_home_id>>
    /\ UNCHANGED <<ledgervars, authvars, observed>>

\* One member handler at a time is followed call by call; every other request
\* runs from start to end between two of its calls.
NextMemberRace ==
    \/ \E x \in RequestUsers, n \in HomeNames : CreateHome(x, n)
    \/ \E x \in RequestUsers, c \in RequestUsers : AddMember(x, c)
    \/ \E x \in RequestUsers : LeaveHome(x)
    \/ \E x \in RequestUsers, c \in RequestUsers : AddMemberBegin(x, c)
    \/ AddMemberGetHome
    \/ AddMemberGetUser
    \/ AddMemberInsert
    \/ AddMemberUpdate
    \/ \E x \in RequestUsers : LeaveHomeBegin(x)
    \/ LeaveHomeGetHome
    \/ LeaveHomeDeleteMember
    \/ LeaveHomeUpdateUser
    \/ LeaveHomeDeleteHome

SpecMemberRace == Init /\ [][NextMemberRace]_vars

\* --------------------- /approve-join-request between its storage calls
\* main.approve_join_request with action "approve" or "reject"
DecideBegin(x, r, action) ==
    /\ inflight = Idle
    /\ inflight' = [pc |-> action \o "_get_request", leader_username |-> x,
                    request_id |-> r]
    /\ last' = Call(action \o "_begin", x, "", r, TRUE)
    /\ UNCHANGED <<homevars, ledgervars, authvars, observed>>

\* The handler answers False (an early return, or the "except:" clause)
DecideFails(action) ==
    /\ inflight' = Idle
    /\ last' = Call(action, inflight.leader_username, "", inflight.request_id, FALSE)

\* "SELECT * FROM join_requests WHERE id = :request_id" and the status check;
\* request_result keeps the row as it was read
DecideGetRequest(action) ==
    /\ inflight.pc = action \o "_get_request"
    /\ IF RequestIsPending(inflight.request_id)
       THEN /\ inflight' = [pc |-> action \o "_get_home",
                            leader_username |-> inflight.leader_username,
                            request_id |-> inflight.request_id,
                            home_id |-> join_requests[inflight.request_id].home_id,
                            username |-> join_requests[inflight.request_id].username]
            /\ UNCHANGED last
       ELSE DecideFails(action)
    /\ UNCHANGED <<homevars, ledgervars, authvars, observed>>

\* "SELECT * FROM homes WHERE id = :home_id" and the leader check
DecideGetHome(action, next_pc) ==
    /\ inflight.pc = action \o "_get_home"
    /\ IF IsLeaderOf(inflight.home_id, inflight.leader_username)
       THEN /\ inflight' = [inflight EXCEPT !.pc = next_pc]
            /\ UNCHANGED last
       ELSE DecideFails(action)
    /\ UNCHANGED <<homevars, ledgervars, authvars, observed>>

ApproveGetRequest == DecideGetRequest("approve")
ApproveGetHome == DecideGetHome("approve", "approve_update_user")
RejectGetRequest == DecideGetRequest("reject")
RejectGetHome == DecideGetHome("reject", "reject_set_status")

\* "UPDATE users SET home_id = :home_id WHERE username = :username"
ApproveUpdateUser ==
    /\ inflight.pc = "approve_update_user"
    /\ users' = SetUserHome(inflight.username, inflight.home_id)
    /\ inflight' = [inflight EXCEPT !.pc = "approve_insert"]
    /\ UNCHANGED <<homes, home_members, join_requests, next_home_id>>
    /\ UNCHANGED <<ledgervars, authvars, observed, last>>

\* "INSERT INTO home_members ...": raises on a duplicate row
ApproveInsert ==
    /\ inflight.pc = "approve_insert"
    /\ IF MemberRowExists(inflight.home_id, inflight.username)
       THEN /\ DecideFails("approve")
            /\ UNCHANGED home_members
       ELSE /\ home_members' = home_members \cup
                                  {<<inflight.home_id, inflight.username>>}
            /\ inflight' = [inflight EXCEPT !.pc = "approve_set_status"]
            /\ UNCHANGED last
    /\ UNCHANGED <<users, homes, join_requests, next_home_id>>
    /\ UNCHANGED <<ledgervars, authvars, observed>>

\* "UPDATE join_requests SET status = ... WHERE id = :request_id"
DecideSetStatus(action, status) ==
    /\ inflight.pc = action \o "_set_status"
    /\ join_requests' = SetStatus(inflight.request_id, status)
    /\ inflight' = Idle
    /\ last' = Call(action, inflight.leader_username, "", inflight.request_id, TRUE)
    /\ UNCHANGED <<users, homes, home_members, next_home_id>>
    /\ UNCHANGED <<ledgervars, authvars, observed>>

ApproveSetStatus == DecideSetStatus("approve", "approved")
RejectSetStatus == DecideSetStatus("reject", "rejected")

\* One decision at a time is followed call by call; every other request runs
\* from start to end between two of its calls.
NextDecideRace ==
    \/ \E x \in RequestUsers, n \in HomeNames : CreateHome(x, n)
    \/ \E x \in RequestUsers, n \in HomeNames : RequestJoin(x, n)
    \/ \E x \in RequestUsers, r \in RequestIds : ApproveJoinRequest(x, r)
    \/ \E x \in RequestUsers, r \in RequestIds : RejectJoinRequest(x, r)
    \/ \E x \in RequestUsers, r \in RequestIds, action \in {"approve", "reject"} :
            DecideBegin(x, r, action)
    \/ ApproveGetRequest
    \/ ApproveGetHome
    \/ ApproveUpdateUser
    \/ ApproveInsert
    \/ ApproveSetStatus
    \/ RejectGetRequest
    \/ RejectGetHome
    \/ RejectSetStatus

SpecDecideRace == Init /\ [][NextDecideRace]_vars

\* Two leaders and the users they add: one /add-member is followed call by
\* call, every other request runs from start to end between two of its calls.
Leaders == {"alice", "bob"}
Candidates == {"carol", NoSuchUser}

NextAddRace ==
    \/ \E x \in Leaders, n \in HomeNames : CreateHome(x, n)
    \/ \E x \in Leaders, c \in Candidates : AddMember(x, c)
    \/ \E x \in Leaders, c \in Candidates : AddMemberBegin(x, c)
    \/ AddMemberGetHome
    \/ AddMemberGetUser
    \/ AddMemberInsert
    \/ AddMemberUpdate

SpecAddRace == Init /\ [][NextAddRace]_vars

\* ================================================================ claims
\* Rows of home_members that name user u
HomesOf(u) == {h \in HomeIds : <<h, u>> \in home_members}

\* C1: for every user u and home h, u's home reference is h iff the
\* membership row (h, u) exists.
C1_HomeRefIffMembership ==
    \A u \in DOMAIN users : \A h \in HomeIds :
        (users[u].home_id = h) <=> (<<h, u>> \in home_members)

\* C2: no username appears in the member set of two different homes.
C2_AtMostOneHome ==
    \A u \in DOMAIN users : Cardinality(HomesOf(u)) <= 1

\* C5: every pending join request has an applicant whose home reference
\* is null.
C5_PendingApplicantHomeless ==
    \A r \in DOMAIN join_requests :
        join_requests[r].status = "pending"
            => UserHome(join_requests[r].username) = NULL

\* C6: the leader of every existing home is a member of that home.
C6_LeaderIsMember ==
    \A h \in DOMAIN homes : <<h, homes[h].leader_username>> \in home_members

\* C6 witness: a member was removed, or left, and the home is still there
\* with its leader and another member.
C6_Witness ==
    /\ last.op \in {"remove_member", "leave_home"}
    /\ last.ok
    /\ \E h \in DOMAIN homes : Cardinality(Members(h)) >= 2

\* C7: no home exists whose member set is empty.
C7_NoEmptyHome ==
    \A h \in DOMAIN homes : Members(h) # {}

\* C7 witness: a sole-member leader has left and the home row is gone.
C7_Witness ==
    /\ last.op = "leave_home"
    /\ last.ok
    /\ \E h \in 1..(next_home_id - 1) :
          h \notin DOMAIN homes /\ Members(h) = {}

\* C8: an approve is all-or-nothing: the request becomes approved together
\* with the applicant's home reference and membership row, and an approve
\* that leaves the request as it was changes no home reference and no
\* membership row.
C8_ApproveAllOrNothing ==
    [][ (last'.op = "approve" /\ last'.rid \in DOMAIN join_requests) =>
          LET r == last'.rid
              a == join_requests[r].username
              h == join_requests[r].home_id
          IN  /\ (join_requests'[r].status = "approved"
                    /\ join_requests[r].status = "pending")
                   => (users'[a].home_id = h /\ <<h, a>> \in home_members')
              /\ join_requests'[r].status = join_requests[r].status
                   => (users' = users /\ home_members' = home_members)
      ]_vars

\* C9: a join request moves only from pending to approved or rejected; a
\* decided request never changes again, and a later approve or reject of
\* it fails and changes no request, membership or home reference.
C9_DecidedIsAbsorbing ==
    [][ \A r \in DOMAIN join_requests :
          /\ r \in DOMAIN join_requests'
          /\ join_requests[r].status # "pending"
               => join_requests'[r] = join_requests[r]
          /\ join_requests'[r].status \in {"pending", "approved", "rejected"}
          /\ (/\ last'.op \in {"approve", "reject"}
              /\ last'.rid = r
              /\ join_requests[r].status # "pending")
               => /\ ~last'.ok
                  /\ UNCHANGED <<users, homes, home_members, join_requests>>
      ]_vars

\* C9 witness: an approve or reject was tried on a decided request.
C9_Witness ==
    /\ last.op \in {"approve", "reject"}
    /\ ~last.ok
    /\ last.rid \in DOMAIN join_requests
    /\ join_requests[last.rid].status \in {"approved", "rejected"}

\* Rows of the ledger written by transfer t for user u with amount a and a
\* product name of the given head, in home h
TransferRows(t, u, h, head, a) ==
    {c \in DOMAIN contributions :
        /\ contributions[c].origin = t
        /\ contributions[c].username = u
        /\ contributions[c].home_id = h
        /\ contributions[c].product_name[1] = head
        /\ contributions[c].amount = a}

\* C3: for every transfer row t with amount a the ledger holds exactly one
\* contribution of t.sender with +a and exactly one of t.recipient with -a,
\* both in t.home and both named as fund transfers.
C3_TransferPaired ==
    \A t \in DOMAIN transfers :
        LET tr == transfers[t] IN
        /\ Cardinality(TransferRows(t, tr.sender_username, tr.home_id,
                                    "Fund transfer", tr.amount)) = 1
        /\ Cardinality(TransferRows(t, tr.recipient_username, tr.home_id,
                                    "Fund received", -tr.amount)) = 1

\* C10: an access token that verified when revoke was called on it never
\* verifies as an access token again, whatever happens afterwards.
C10_RevokedNeverVerifies ==
    \A t \in revoke_log : verify_token(t, "access") # "ok"

\* C10 witness: a revoked token was presented again after the clock moved
\* and other tokens were issued, and was refused as revoked.
C10_Witness ==
    /\ last.op = "verify"
    /\ last.err = "Revoked"
    /\ ticks > 0
    /\ \E t \in revoke_log : t.jti = last.rid /\ ~Expired(t)

\* C4: no request that runs between two storage calls of a transfer sees the
\* sender's +a contribution without the recipient's -a contribution.
C4_ReadersSeeWholeTransfers ==
    \A k \in DOMAIN observed :
        (observed[k].origin # 0 /\ observed[k].product_name[1] = "Fund transfer")
        => \E k2 \in DOMAIN observed :
              /\ observed[k2].origin = observed[k].origin
              /\ observed[k2].product_name[1] = "Fund received"
              /\ observed[k2].amount = -observed[k].amount

\* C11: a transfer that succeeds leaves the sum of the amounts of every home's
\* contributions as it was before the transfer.
C11_TransferKeepsHomeTotal ==
    [][(last'.op = "transfer" /\ last'.ok)
        => \A h \in HomeIds :
              HomeTotalOf(contributions', h) = HomeTotalOf(contributions, h)]_vars

C11_Witness ==
    /\ last.op = "transfer"
    /\ last.ok
    /\ \E k \in DOMAIN contributions : contributions[k].origin = 0
    /\ \E h \in DOMAIN homes : HomeTotal(h) > 0

\* C12: a transfer fails when sender = recipient (SelfTransfer), when the
\* sender has no home or the homes differ (HomeMismatch; the route's own
\* "join a home" answer for a homeless sender is recorded as NoHome), when
\* amount <= 0 (NonPositiveAmount) and when a user does not exist
\* (NoSuchUser); the kind reported is one whose condition holds, and a failing
\* transfer writes no transfers row and no contributions row.
C12_TransferFailures ==
    [][last'.op = "transfer" =>
        LET x == last'.who
            rcp == last'.arg
            a == last'.rid
            self == x = rcp
            mismatch == UserHome(x) = NULL \/ UserHome(x) # UserHome(rcp)
            nonpos == a <= 0
            nouser == ~UserExists(x) \/ ~UserExists(rcp)
        IN  /\ (self \/ mismatch \/ nonpos \/ nouser) <=> ~last'.ok
            /\ last'.ok => last'.err = ""
            /\ ~last'.ok =>
                   /\ last'.err \in {"SelfTransfer", "HomeMismatch", "NoHome",
                                     "NonPositiveAmount", "NoSuchUser"}
                   /\ last'.err = "SelfTransfer" => self
                   /\ last'.err \in {"HomeMismatch", "NoHome"} => mismatch
                   /\ last'.err = "NonPositiveAmount" => nonpos
                   /\ last'.err = "NoSuchUser" => nouser
                   /\ (self /\ ~mismatch /\ ~nonpos /\ ~nouser)
                          => last'.err = "SelfTransfer"
                   /\ contributions' = contributions
                   /\ transfers' = transfers
                   /\ next_contribution_id' = next_contribution_id]_vars

C12_Witness ==
    /\ last.op = "transfer"
    /\ last.err = "SelfTransfer"
    /\ users[last.who].home_id # NULL
    /\ contributions # << >>

\* C13: a contribution by an author whose home reference is null is rejected
\* and writes nothing; by an author who has a home it succeeds and adds exactly
\* one row, authored by the caller and carrying the caller's home at that moment.
C13_ContributionCarriesHome ==
    [][last'.op = "add_contribution" =>
        LET x == last'.who
            id == last'.rid
        IN  /\ UserHome(x) = NULL =>
                   /\ ~last'.ok
                   /\ contributions' = contributions
            /\ UserHome(x) # NULL =>
                   /\ last'.ok
                   /\ id \notin DOMAIN contributions
                   /\ DOMAIN contributions' = DOMAIN contributions \cup {id}
                   /\ contributions'[id].username = x
                   /\ contributions'[id].home_id = UserHome(x)
                   /\ \A k \in DOMAIN contributions :
                          contributions'[k] = contributions[k]]_vars

\* a member who was added by the leader has contributed to the home joined
C13_Witness ==
    /\ last.op = "add_contribution"
    /\ last.ok
    /\ ~IsLeaderOf(UserHome(last.who), last.who)
    /\ contributions[last.rid].home_id = UserHome(last.who)
    /\ contributions[last.rid].home_id # NULL

\* C14: delete_contribution(id, x) returns false and leaves every row as it
\* was when x is not the author of row id or there is no such row; it returns
\* true and removes exactly row id when x is its author.
C14_DeleteByAuthorOnly ==
    [][last'.op = "delete_contribution" =>
        LET x == last'.who
            id == last'.rid
        IN  IF id \in DOMAIN contributions /\ contributions[id].username = x
            THEN /\ last'.ok /\ last'.err = ""
                 /\ contributions' =
                        [k \in DOMAIN contributions \ {id} |-> contributions[k]]
            ELSE /\ ~last'.ok /\ last'.err = ""
                 /\ contributions' = contributions]_vars

\* C15: approve and reject by a user who is not the leader of the request's
\* target home fail and change no request, membership, home or home reference.
C15_OnlyLeaderDecides ==
    [][(/\ last'.op \in {"approve", "reject"}
        /\ last'.rid \in DOMAIN join_requests
        /\ ~IsLeaderOf(join_requests[last'.rid].home_id, last'.who))
        => /\ ~last'.ok
           /\ UNCHANGED <<users, homes, home_members, join_requests>>]_vars

\* a user other than the leader has tried to reject a pending request
C15_Witness ==
    /\ last.op = "reject"
    /\ ~last.ok
    /\ last.rid \in DOMAIN join_requests
    /\ join_requests[last.rid].status = "pending"
    /\ HomeExists(join_requests[last.rid].home_id)
    /\ ~IsLeaderOf(join_requests[last.rid].home_id, last.who)

\* C16: approving a pending request whose applicant already has a home fails
\* and leaves the applicant's home reference and every membership unchanged.
C16_ApproveNeedsHomelessApplicant ==
    [][(/\ last'.op = "approve"
        /\ last'.rid \in DOMAIN join_requests
        /\ join_requests[last'.rid].status = "pending"
        /\ UserHome(join_requests[last'.rid].username) # NULL)
        => /\ ~last'.ok
           /\ UNCHANGED <<users, home_members>>]_vars

\* C17: leave(u) on a home h of which u is a member: when u leads h and other
\* members remain it fails and changes nothing; when u leads h and is its only
\* member, u becomes homeless and h is deleted; when u does not lead h, u
\* becomes homeless, the membership (h, u) goes and the home, its leader and
\* the other memberships stay.
C17_LeaveContract ==
    [][last'.op = "leave_home" =>
        LET x == last'.who
        IN  \A h \in DOMAIN homes : MemberRowExists(h, x) =>
               IF homes[h].leader_username = x
               THEN IF Members(h) # {x}
                    THEN /\ ~last'.ok
                         /\ UNCHANGED <<users, homes, home_members>>
                    ELSE /\ last'.ok
                         /\ users'[x].home_id = NULL
                         /\ h \notin DOMAIN homes'
               ELSE /\ last'.ok
                    /\ users'[x].home_id = NULL
                    /\ home_members' = home_members \ {<<h, x>>}
                    /\ homes' = homes
                    /\ \A u \in Users \ {x} : users'[u] = users[u]]_vars

\* C18: remove-member by x (home h = x's home reference) of target t fails and
\* changes nothing when x does not lead h or when t leads h; otherwise it
\* succeeds, the membership (h, t) is gone, t's home reference is null and no
\* other user, membership or home has changed.
C18_RemoveContract ==
    [][last'.op = "remove_member" =>
        LET x == last'.who
            t == last'.arg
            h == users[x].home_id
            leads == h \in DOMAIN homes /\ homes[h].leader_username = x
        IN  IF ~leads \/ homes[h].leader_username = t
            THEN /\ ~last'.ok
                 /\ UNCHANGED <<users, homes, home_members, join_requests>>
            ELSE /\ last'.ok
                 /\ home_members' = home_members \ {<<h, t>>}
                 /\ DOMAIN users' = DOMAIN users
                 /\ t \in DOMAIN users => users'[t].home_id = NULL
                 /\ \A u \in DOMAIN users \ {t} : users'[u] = users[u]
                 /\ UNCHANGED <<homes, join_requests>>]_vars

\* the leader of a home with two members left has removed a user
C18_Witness ==
    /\ last.op = "remove_member"
    /\ last.ok
    /\ last.arg \in DOMAIN users
    /\ users[last.arg].home_id = NULL
    /\ ~MemberRowExists(users[last.who].home_id, last.arg)
    /\ Cardinality(Members(users[last.who].home_id)) = 2

\* C19: add-member by x (home h = x's home reference) of candidate c fails and
\* changes nothing when x does not lead h, when c does not exist or when c's
\* home reference is not null; when it succeeds the membership (h, c) exists,
\* c's home reference is h and nothing else has changed.
C19_DirectAddContract ==
    [][last'.op = "add_member" =>
        LET x == last'.who
            c == last'.arg
            h == users[x].home_id
            leads == h \in DOMAIN homes /\ homes[h].leader_username = x
        IN  /\ (~leads \/ c \notin DOMAIN users \/ users[c].home_id # NULL)
                => /\ ~last'.ok
                   /\ UNCHANGED <<users, homes, home_members, join_requests>>
            /\ last'.ok
                => /\ <<h, c>> \in home_members'
                   /\ users'[c].home_id = h
                   /\ home_members' = home_members \cup {<<h, c>>}
                   /\ \A u \in DOMAIN users \ {c} : users'[u] = users[u]
                   /\ UNCHANGED <<homes, join_requests>>
            /\ ~last'.ok => UNCHANGED <<users, homes, home_members, join_requests>>]_vars

C19_Witness ==
    /\ last.op = "add_member"
    /\ last.ok
    /\ users[last.arg].home_id = users[last.who].home_id
    /\ MemberRowExists(users[last.who].home_id, last.arg)
    /\ homes[users[last.who].home_id].leader_username = last.who

\* C20: create-home by a founder whose home reference is not null, or with a
\* name an existing home has, fails, creates no home and changes no membership
\* or home reference; otherwise it succeeds and the new home has the founder
\* as leader and as its only member, the founder's home reference being it.
C20_CreateHomeContract ==
    [][last'.op = "create_home" =>
        LET x == last'.who
            n == last'.arg
        IN  IF users[x].home_id # NULL \/ (\E h \in DOMAIN homes : homes[h].name = n)
            THEN /\ ~last'.ok
                 /\ UNCHANGED <<users, homes, home_members, join_requests>>
            ELSE /\ last'.ok
                 /\ \E h \in HomeIds \ DOMAIN homes :
                       /\ DOMAIN homes' = DOMAIN homes \cup {h}
                       /\ homes'[h] = [name |-> n, leader_username |-> x]
                       /\ \A k \in DOMAIN homes : homes'[k] = homes[k]
                       /\ home_members' = home_members \cup {<<h, x>>}
                       /\ \A u \in UserNames : <<h, u>> \in home_members' <=> u = x
                       /\ users'[x].home_id = h
                       /\ \A u \in DOMAIN users \ {x} : users'[u] = users[u]
                 /\ UNCHANGED join_requests]_vars

\* a second home has been founded while the first one exists
C20_Witness ==
    /\ last.op = "create_home"
    /\ last.ok
    /\ Cardinality(DOMAIN homes) = 2
    /\ homes[users[last.who].home_id].leader_username = last.who
    /\ Members(users[last.who].home_id) = {last.who}

\* C21: there is never more than one pending join request of the same
\* applicant for the same home, and a request-join by a user whose home
\* reference is set creates no join request.
C21_OnePendingPerPair ==
    [][LET pending == {r \in DOMAIN join_requests' :
                          join_requests'[r].status = "pending"}
       IN  /\ \A r1, r2 \in pending :
                 (/\ join_requests'[r1].username = join_requests'[r2].username
                  /\ join_requests'[r1].home_id = join_requests'[r2].home_id)
                 => r1 = r2
           /\ (last'.op = "request_join" /\ users[last'.who].home_id # NULL)
                 => (~last'.ok /\ join_requests' = join_requests)]_vars

\* an applicant asks the same home again after a rejection, and once more
\* while that request is pending
C21_Witness ==
    /\ last.op = "request_join"
    /\ ~last.ok
    /\ users[last.who].home_id = NULL
    /\ \E r1, r2 \in DOMAIN join_requests :
          /\ join_requests[r1].username = last.who
          /\ join_requests[r2].username = last.who
          /\ join_requests[r1].home_id = join_requests[r2].home_id
          /\ join_requests[r1].home_name = last.arg
          /\ join_requests[r1].status = "rejected"
          /\ join_requests[r2].status = "pending"
          /\ HomeExists(join_requests[r2].home_id)

\* C22: when the leader and sole member of a home leaves, no home of that name
\* is left; and as long as no home has the name, every request-join naming it
\* fails and creates no join request.
C22_DissolvedHomeTakesNoRequests ==
    [][LET x == last'.who
           h == users[x].home_id
       IN  /\ (/\ last'.op = "leave_home"
                /\ h \in DOMAIN homes
                /\ homes[h].leader_username = x
                /\ Members(h) = {x})
                 => /\ last'.ok
                    /\ \A k \in DOMAIN homes' : homes'[k].name # homes[h].name
           /\ (/\ last'.op = "request_join"
                /\ \A k \in DOMAIN homes : homes[k].name # last'.arg)
                 => (~last'.ok /\ join_requests' = join_requests)]_vars

\* a homeless user asks for a home that took a request before it was dissolved,
\* while another home exists
C22_Witness ==
    /\ last.op = "request_join"
    /\ ~last.ok
    /\ users[last.who].home_id = NULL
    /\ \A k \in DOMAIN homes : homes[k].name # last.arg
    /\ homes # << >>
    /\ \E r \in DOMAIN join_requests :
          /\ join_requests[r].home_name = last.arg
          /\ ~HomeExists(join_requests[r].home_id)

\* C23: once an add-member and a leave that ran interleaved have both ended,
\* no membership row belongs to a deleted home and no user's home reference
\* points to a home that does not exist.
C23_NoLostUpdate ==
    inflight = Idle =>
        /\ \A m \in home_members : m[1] \in DOMAIN homes
        /\ \A u \in DOMAIN users :
              users[u].home_id # NULL => users[u].home_id \in DOMAIN homes

\* C24: revoke(t) puts t into the revocation set exactly when t verifies at
\* that moment (as the access token revoke_token takes it for); for every other
\* token it returns without raising and leaves the set as it was.
C24_RevokeIffVerifies ==
    [][last'.op = "revoke" =>
        LET named == {t \in PresentedTokens :
                         t.jti = last'.rid /\ t.sub = last'.who}
        IN  /\ last'.err = ""
            /\ token_blacklist' = token_blacklist \cup
                   {t \in named : verify_token(t, "access") = "ok"}]_vars

\* C25: verify(token, kind) returns claims exactly when the token is not
\* empty, not revoked, not expired (now < exp), correctly signed and of the
\* expected kind; otherwise it fails with a verification error (JWTError).
C25_VerifyContract ==
    [][last'.op = "verify" =>
        LET named == {t \in PresentedTokens :
                         t.jti = last'.rid /\ t.sub = last'.who}
        IN  /\ last'.ok <=> \E t \in named :
                                /\ t.sig = "secret_key"
                                /\ t \notin token_blacklist
                                /\ now < t.exp
                                /\ t.type = last'.arg
            /\ ~last'.ok => RaisesJWTError(last'.err)]_vars

C27_SweepEvictsExpired ==
    [][last'.op = "cleanup_expired_tokens" =>
        \A t \in token_blacklist' : ~(t.exp < now')]_vars

\* C28: no two users ever share an email (a users row is found by its
\* username, of which there is one row), and a register or profile update
\* that would give two users the same username or email fails and changes no
\* users row.
C28_UniqueIdentity ==
    [][/\ \A u1, u2 \in DOMAIN users' :
             users'[u1].email = users'[u2].email => u1 = u2
       /\ (/\ last'.op = "create_user"
            /\ \/ last'.who \in DOMAIN users
               \/ \E u \in DOMAIN users : users[u].email = last'.arg)
             => (~last'.ok /\ users' = users)
       /\ (/\ last'.op = "update_profile"
            /\ \E u \in DOMAIN users \ {last'.who} : users[u].email = last'.arg)
             => (~last'.ok /\ users' = users)]_vars

\* a profile update asked for the email of a user who registered after Init
C28_Witness ==
    /\ last.op = "update_profile"
    /\ last.err = "AlreadyExists"
    /\ \E u \in DOMAIN users \ Users : users[u].email = last.arg /\ u # last.who
    /\ users[last.who].email # last.arg

\* C29: for a user whose home exists, the statistics read returns the sum of
\* the user's contributions in the home, the home's sum divided by its number
\* of members, the shortfall max(0, avg - user_total) and whether the user is
\* at or above the average; the shortfall is 0 exactly when the user is.
C29_AverageGap ==
    [][last'.op = "average_gap" =>
        LET u == last'.who
            h == users[u].home_id
            n == Cardinality({m \in home_members : m[1] = h})
            mine == {k \in DOMAIN contributions :
                        contributions[k].username = u /\ contributions[k].home_id = h}
            all == {k \in DOMAIN contributions : contributions[k].home_id = h}
            r == observed'
        IN  (h # NULL /\ h \in DOMAIN homes) =>
              /\ n >= 1
              /\ r.user_total = SumAmounts(contributions, mine)
              /\ r.average_contribution * n = SumAmounts(contributions, all)
              /\ r.amount_to_reach_average =
                    (IF r.average_contribution > r.user_total
                     THEN r.average_contribution - r.user_total ELSE 0)
              /\ r.is_above_average = (r.user_total >= r.average_contribution)
              /\ (r.amount_to_reach_average = 0) = r.is_above_average]_vars

\* two members with totals 60 and 20: the second reads avg 40, shortfall 20
C29_Witness ==
    /\ last.op = "average_gap"
    /\ \E h \in DOMAIN homes :
          /\ users[last.who].home_id = h
          /\ Cardinality({m \in home_members : m[1] = h}) = 2
          /\ \E k1, k2 \in DOMAIN contributions :
                /\ contributions[k1].amount = 60 /\ contributions[k1].username # last.who
                /\ contributions[k2].amount = 20 /\ contributions[k2].username = last.who
                /\ contributions[k1].home_id = h /\ contributions[k2].home_id = h
                /\ DOMAIN contributions = {k1, k2}
    /\ observed.user_total = 20
    /\ observed.average_contribution = 40
    /\ observed.amount_to_reach_average = 20
    /\ observed.is_above_average = FALSE

\* C30: a transfer of a that succeeds adds exactly one transfers row and
\* exactly two contributions rows, raises the sender's balance by a, lowers the
\* recipient's by a, and leaves every other user's balance and every row the
\* ledger already had unchanged.
C30_TransferMovesBalance ==
    [][(last'.op = "transfer" /\ last'.ok) =>
        LET sender == last'.who
            recipient == last'.arg
            a == last'.rid
        IN  /\ Len(transfers') = Len(transfers) + 1
            /\ SubSeq(transfers', 1, Len(transfers)) = transfers
            /\ Cardinality(DOMAIN contributions' \ DOMAIN contributions) = 2
            /\ DOMAIN contributions \subseteq DOMAIN contributions'
            /\ \A k \in DOMAIN contributions : contributions'[k] = contributions[k]
            /\ UserBalanceOf(contributions', sender)
                  = UserBalanceOf(contributions, sender) + a
            /\ UserBalanceOf(contributions', recipient)
                  = UserBalanceOf(contributions, recipient) - a
            /\ \A u \in DOMAIN users \ {sender, recipient} :
                  UserBalanceOf(contributions', u) = UserBalanceOf(contributions, u)]_vars

\* the sender had contributed 60 and sent 20: balances 80 and -20
C30_Witness ==
    /\ last.op = "transfer"
    /\ last.ok
    /\ last.rid = 20
    /\ get_user_balance(last.who) = 80
    /\ get_user_balance(last.arg) = -20
    /\ Len(transfers) = 1

\* C31: the product rollup of a home never lists a row written by a transfer,
\* and every other contribution of the home is counted once under its product
\* name: each product name of a contribution that no transfer wrote has one
\* group, whose count and sum are those of the home's rows with that name.
C31_RollupCountsAllButTransfers ==
    [][(last'.op = "product_rollup" /\ last'.ok) =>
        LET h == last'.rid
            r == observed'
            entered == {k \in DOMAIN contributions :
                          contributions[k].home_id = h /\ contributions[k].origin = 0}
            written == {k \in DOMAIN contributions :
                          contributions[k].home_id = h /\ contributions[k].origin # 0}
            named(n) == {k \in entered : contributions[k].product_name = n}
        IN  /\ \A k \in written :
                  \A i \in DOMAIN r : r[i].product_name # contributions[k].product_name
            /\ \A k \in entered :
                  Cardinality({i \in DOMAIN r :
                      r[i].product_name = contributions[k].product_name}) = 1
            /\ \A i \in DOMAIN r :
                  /\ named(r[i].product_name) # {}
                  /\ r[i].count = Cardinality(named(r[i].product_name))
                  /\ r[i].total_amount =
                        SumAmounts(contributions, named(r[i].product_name))]_vars

\* C32: a login of a registered user with the password given at registration
\* succeeds and returns one new access token whose subject is that user; and a
\* token a login returned verifies as an access token, with that subject, at
\* every time before its expiry at which it has not been revoked.
C32_LoginTokenVerifies ==
    [][/\ (/\ last'.op = "login"
            /\ last'.who \in DOMAIN users
            /\ users[last'.who].hashed_password = <<"bcrypt", last'.arg>>)
          => /\ last'.ok
             /\ \E t \in issued' \ issued :
                   /\ issued' = issued \cup {t}
                   /\ t.sub = last'.who /\ t.type = "access" /\ t.jti = last'.rid
       /\ (last'.op = "verify" /\ last'.arg = "access")
          => \A t \in issued :
                (/\ t.jti = last'.rid /\ t.type = "access"
                 /\ now < t.exp /\ t \notin token_blacklist)
                => (last'.ok /\ last'.who = t.sub /\ t.sub \in DOMAIN users)]_vars

\* a user who registered after Init logged in, and the token verified later on
C32_Witness ==
    /\ last.op = "verify"
    /\ last.ok
    /\ last.who \notin Users
    /\ now > 0
    /\ \E t \in issued : t.jti = last.rid /\ t.sub = last.who /\ now < t.exp
    /\ token_blacklist # {}

\* C33: a request whose token is malformed, wrongly signed, expired
\* (now >= exp), revoked or not an access token, or whose subject is not a
\* stored user, is answered 401 and is not resolved to a user.
C33_BadTokenRejected ==
    [][last'.op = "get_current_user" =>
        LET named == {t \in PresentedTokens :
                         t.jti = last'.rid /\ t.sub = last'.who}
        IN  (\A t \in named :
                \/ t.sig # "secret_key"
                \/ now >= t.exp
                \/ t \in token_blacklist
                \/ t.type # "access"
                \/ t.sub \notin DOMAIN users)
            => (~last'.ok /\ last'.err = "401")]_vars

\* C34: revoke of a refresh token that verifies as a refresh token puts it in
\* the revocation set, and a refresh only succeeds with a refresh token that
\* is not in the set.
C34_RevokedRefreshIsDead ==
    [][/\ last'.op = "revoke" =>
            \A t \in issued :
                (/\ t.jti = last'.rid /\ t.sub = last'.who
                 /\ t.type = "refresh"
                 /\ t.sig = "secret_key" /\ now < t.exp
                 /\ t \notin token_blacklist)
                => t \in token_blacklist'
       /\ (last'.op = "refresh" /\ last'.ok) =>
            \E t \in issued :
                /\ t.type = "refresh" /\ t.sub = last'.who
                /\ t \notin token_blacklist]_vars

\* C35: when an approve and a reject of one pending request interleave, the
\* request is decided once: a status other than pending is never written
\* over, and once both have ended the applicant has the membership row of the
\* request's home exactly when the status is approved.
C35_DecidedOnce ==
    [][/\ \A r \in DOMAIN join_requests :
             join_requests[r].status # "pending"
                => join_requests'[r].status = join_requests[r].status
       /\ inflight' = Idle =>
             \A r \in DOMAIN join_requests' :
                join_requests'[r].status # "pending" =>
                   ((<<join_requests'[r].home_id, join_requests'[r].username>>
                        \in home_members')
                    <=> join_requests'[r].status = "approved")]_vars

\* C36: once two leaders' interleaved adds of one homeless user have both
\* ended, the user has a membership row in at most one home, and has it in
\* exactly the home the user's home reference names.
C36_OneHomeAfterRace ==
    inflight = Idle =>
        \A u \in DOMAIN users :
            {h \in HomeIds : <<h, u>> \in home_members}
                = (IF users[u].home_id = NULL THEN {} ELSE {users[u].home_id})

\* C37: after a logout the access token the session used is in the token
\* blacklist and no longer verifies.
C37_LogoutRevokes ==
    [][last'.op = "logout" =>
        \A t \in issued :
            (t.jti = last'.rid /\ t.type = "access") =>
                /\ t \in token_blacklist'
                /\ (t.sig # "secret_key" \/ t.exp < now' \/ t \in token_blacklist')]_vars

\* C38: for every home the total that average_gap divides by the number of
\* members is the sum of the totals of the home's current members: the rows
\* of the home written by its current members add up to all rows of the home.
C38_AverageOverCurrentMembers ==
    \A h \in DOMAIN homes :
        SumAmounts(contributions,
                   {k \in DOMAIN contributions :
                       /\ contributions[k].home_id = h
                       /\ <<h, contributions[k].username>> \in home_members})
          = SumAmounts(contributions,
                       {k \in DOMAIN contributions : contributions[k].home_id = h})

\* C39: every join request with status pending names a home that still has
\* its homes row (and so a leader who can approve or reject it).
C39_PendingTargetsLiveHome ==
    \A r \in DOMAIN join_requests :
        join_requests[r].status = "pending"
            => /\ join_requests[r].home_id \in DOMAIN homes
               /\ \E x \in DOMAIN users :
                     homes[join_requests[r].home_id].leader_username = x

\* C40: remove-member by the leader of a home, for a target without a
\* membership row in that home, leaves the target's home reference and the
\* target's membership rows as they were.
C40_RemoveNonMemberIsNoop ==
    [][last'.op = "remove_member" =>
        LET x == last'.who
            t == last'.arg
            h == users[x].home_id
        IN  (/\ h \in DOMAIN homes
             /\ homes[h].leader_username = x
             /\ t \in DOMAIN users
             /\ <<h, t>> \notin home_members)
            => /\ users'[t].home_id = users[t].home_id
               /\ \A g \in HomeIds :
                     (<<g, t>> \in home_members') <=> (<<g, t>> \in home_members)]_vars

====
